---- MODULE Spec2Model ----
(***************************************************************************)
(* State-machine model of the eris-cacher synchronizers (cachers):        *)
(* UserCacher, ChannelCacher, MemberCacher, GuildCacher and RoleCacher,   *)
(* the SimpleCacher base class, the Cache interface they write to and the *)
(* event emitter (the eris Client) they subscribe to.                      *)
(*                                                                         *)
(* Objects are numbered: 0 is the client, 1..MaxInst are cacher           *)
(* instances.  Caches are numbered 1..NumCaches; 0 stands for the          *)
(* JavaScript value undefined where a cache is expected.                   *)
(***************************************************************************)
EXTENDS Integers, Sequences, FiniteSets, TLC

\* ---------------------------------------------------------------- bounds
MaxInst == 2          \* cacher instances that may be constructed
NumCaches == 2        \* cache objects the application owns
MaxVer == 2           \* distinct payload contents per entity id
MaxChunk == 2         \* members in one guildMemberChunk batch
MaxCloseCalls == 2    \* close() calls per cacher instance

Client == 0
Undefined == 0
Insts == 1..MaxInst
Caches == 1..NumCaches
Ids == {"1", "2"}
ChannelTypes == {0, 1}

Kinds == {"user", "channel", "member", "guild", "role"}

\* An entity payload as the client hands it to a listener.  `v` stands for
\* the rest of the payload; `type` is the channel type (0 where the entity
\* has none).
Entity(k) ==
    [kind : {k}, id : Ids, type : IF k = "channel" THEN ChannelTypes ELSE {0},
     v : 1..MaxVer]

\* allowedtypes?: number[]  -- either undefined or an array of numbers
NoFilter == [def |-> FALSE, arr |-> <<>>]
Filter(a) == [def |-> TRUE, arr |-> a]
FilterChoices == {NoFilter, Filter(<<0>>)}

VARIABLES
    emitter,      \* which EventEmitter the client is built on
    inst,         \* cacher instances: state, class, cache, allowedtypes
    listeners,    \* the client's listener arrays, per event name
    store,        \* content of each cache: key -> value
    closeInvoked, \* per cache: number of close() invocations received
    closeCalls,   \* per instance: number of close() calls made on it
    last          \* the last operation, with the calls it made

vars == <<emitter, inst, listeners, store, closeInvoked, closeCalls, last>>

\* ------------------------------------------------------- the event table
EventNames ==
    {"userUpdate",
     "channelCreate", "channelUpdate", "channelDelete",
     "guildMemberAdd", "guildMemberUpdate", "guildMemberChunk",
     "guildMemberRemove",
     "guildCreate", "guildUpdate", "guildDelete",
     "guildRoleCreate", "guildRoleUpdate", "guildRoleDelete"}

\* setupEvents of each class: <<event name, method passed to client.on>>,
\* in the order of the calls.
setupEvents(cls) ==
    CASE cls = "user" -> << <<"userUpdate", "userset">> >>
      [] cls = "channel" -> << <<"channelCreate", "cacheset">>,
                               <<"channelUpdate", "cacheset">>,
                               <<"channelDelete", "cachedel">> >>
      [] cls = "member" -> << <<"guildMemberAdd", "memberset">>,
                              <<"guildMemberUpdate", "memberset">>,
                              <<"guildMemberChunk", "memberchunk">>,
                              <<"guildMemberRemove", "memberdel">> >>
      [] cls = "guild" -> << <<"guildCreate", "guildset">>,
                             <<"guildUpdate", "guildset">>,
                             <<"guildDelete", "guilddel">> >>
      [] cls = "role" -> << <<"guildRoleCreate", "roleset">>,
                            <<"guildRoleUpdate", "roleset">>,
                            <<"guildRoleDelete", "roledel">> >>

\* close of each class: the client.off calls, in the order of the calls.
closeOffs(cls) ==
    CASE cls = "user" -> << <<"userUpdate", "userset">> >>
      [] cls = "channel" -> << <<"channelCreate", "cacheset">>,
                               <<"channelUpdate", "cacheset">>,
                               <<"channelDelete", "cachedel">> >>
      [] cls = "member" -> << <<"guildMemberAdd", "memberset">>,
                              <<"guildMemberUpdate", "memberset">>,
                              <<"guildMemberChunk", "memberchunk">>,
                              <<"guildMemberRemove", "memberdel">> >>
      [] cls = "guild" -> << <<"guildCreate", "guildset">>,
                             <<"guildUpdate", "guildset">>,
                             <<"guildDelete", "guilddel">> >>
      [] cls = "role" -> << <<"guildRoleCreate", "roleset">>,
                            <<"guildRoleUpdate", "roleset">>,
                            <<"guildRoleDelete", "roledel">> >>

\* The class whose methods are subscribed to an event name.
ClassOfEvent(ev) ==
    CHOOSE cls \in Kinds :
        \E n \in 1..Len(setupEvents(cls)) : setupEvents(cls)[n][1] = ev

\* ------------------------------------------------- the client's emitter
\* The value of the expression `this.<fn>` evaluated in instance i at a
\* client.on / client.off call (site "on" / "off").  The methods are
\* prototype methods and are passed as they are: every evaluation, in every
\* instance of the class, yields the same unbound function.
\* (changed) each evaluation wraps the method in a new function bound to the
\* instance, `this.<fn>.bind(this)`: the one passed to client.off is not the
\* one passed to client.on.
HandlerRefBoundPerCall(i, fn, site) ==
    [fn |-> fn, bound |-> TRUE, this |-> i, site |-> site]

HandlerRef(i, fn, site) ==
    [fn |-> fn, bound |-> FALSE, this |-> Client, site |-> "prototype"]

\* The receiver (`this`) a listener runs with when the emitter calls it: a
\* bound function keeps its own, any other function gets the emitter.
ThisOf(ref) == IF ref.bound THEN ref.this ELSE Client

\* EventEmitter.on: the listener is appended to the event's array.
On(ls, ev, ref) == [ls EXCEPT ![ev] = Append(@, ref)]

RECURSIVE LastIndexOf(_, _)
LastIndexOf(s, x) ==
    IF s = <<>> THEN 0
    ELSE IF s[Len(s)] = x THEN Len(s)
    ELSE LastIndexOf(SubSeq(s, 1, Len(s) - 1), x)

RemoveAt(s, n) == SubSeq(s, 1, n - 1) \o SubSeq(s, n + 1, Len(s))

Count(s, x) == Cardinality({n \in 1..Len(s) : s[n] = x})

\* EventEmitter.off.  The client's EventEmitter is Node's "events" or, when
\* that package is installed, "eventemitter3": the first removes the most
\* recently added listener identical to ref, the second every listener
\* identical to ref.  Removing a listener that is not there does nothing.
Off(kind, ls, ev, ref) ==
    IF kind = "events"
    THEN LET n == LastIndexOf(ls[ev], ref)
         IN  IF n = 0 THEN ls ELSE [ls EXCEPT ![ev] = RemoveAt(@, n)]
    ELSE [ls EXCEPT ![ev] = SelectSeq(@, LAMBDA r : r # ref)]

\* ------------------------------------------------------------- the cache
Empty == [k \in {} |-> 0]
Put(f, k, val) == [x \in (DOMAIN f) \cup {k} |-> IF x = k THEN val ELSE f[x]]
Del(f, k) == [x \in (DOMAIN f) \ {k} |-> f[x]]

\* Cache.set / Cache.delete on the content of one cache.
CacheSet(content, id, value) == Put(content, id, value)
CacheDelete(content, id) == Del(content, id)

\* Property reads `obj.cache` and `obj.allowedtypes`.  Cacher instances
\* hold the constructor's arguments; the client has neither property.
PropCache(obj) == IF obj = Client THEN Undefined ELSE inst[obj].cache
PropAllowedtypes(obj) ==
    IF obj = Client THEN NoFilter ELSE inst[obj].allowedtypes

\* Array.prototype.indexOf: the first index (from 0) of x, or -1.
IndexOf(arr, x) ==
    IF \E n \in 1..Len(arr) : arr[n] = x
    THEN (CHOOSE n \in 1..Len(arr) :
              arr[n] = x /\ \A m \in 1..(n - 1) : arr[m] # x) - 1
    ELSE -1

\* One call `target.set(key, value)` / `target.delete(key)` made while a
\* listener runs.  ctx carries the cache contents, the calls made so far
\* and the error raised so far; a call on undefined raises a TypeError, and
\* the cache fails the failAt-th operation of the emission (0: none).
Call(ctx, op, target, key, value) ==
    IF ctx.err # "none" THEN ctx
    ELSE IF target = Undefined THEN [ctx EXCEPT !.err = "TypeError"]
    ELSE LET c == [op |-> op, target |-> target, key |-> key, val |-> value]
             made == [ctx EXCEPT !.calls = Append(@, c)]
         IN  IF Len(made.calls) = ctx.failAt
             THEN [made EXCEPT !.err = "CacheError"]
             ELSE IF op = "set"
                  THEN [made EXCEPT !.store[target] =
                                        CacheSet(@, key, value[1])]
                  ELSE [made EXCEPT !.store[target] = CacheDelete(@, key)]

\* ------------------------------------------------------- the listeners
\* Each takes the receiver `self` it is run with.
userset(self, ctx, user) ==
    Call(ctx, "set", PropCache(self), user.id, <<user>>)

\* (changed) a cacheset that does not look at the allowed types.
cachesetUnfiltered(self, ctx, channel) ==
    Call(ctx, "set", PropCache(self), channel.id, <<channel>>)

cacheset(self, ctx, channel) ==
    IF ~PropAllowedtypes(self).def
       \/ IndexOf(PropAllowedtypes(self).arr, channel.type) # -1
    THEN Call(ctx, "set", PropCache(self), channel.id, <<channel>>)
    ELSE ctx

\* (changed) a cachedel that does not look at the allowed types.
cachedelUnfiltered(self, ctx, channel) ==
    Call(ctx, "delete", PropCache(self), channel.id, <<>>)

cachedel(self, ctx, channel) ==
    IF ~PropAllowedtypes(self).def
       \/ IndexOf(PropAllowedtypes(self).arr, channel.type) # -1
    THEN Call(ctx, "delete", PropCache(self), channel.id, <<>>)
    ELSE ctx

\* (changed) a member key without the guild.
MemberKeyMemberOnly(guildId, memberId) == memberId

\* The template string `${guild.id}:${member.id}`.
MemberKey(guildId, memberId) == guildId \o ":" \o memberId

memberset(self, ctx, guild, member) ==
    Call(ctx, "set", PropCache(self), MemberKey(guild, member.id), <<member>>)

RECURSIVE memberchunk(_, _, _, _)
memberchunk(self, ctx, guild, members) ==
    IF members = <<>> \/ ctx.err # "none" THEN ctx
    ELSE memberchunk(self,
             Call(ctx, "set", PropCache(self),
                  MemberKey(guild, Head(members).id), <<Head(members)>>),
             guild, Tail(members))

\* (changed) a memberdel with the two ids of the key exchanged.
memberdelSwapped(self, ctx, guild, member) ==
    Call(ctx, "delete", PropCache(self), MemberKey(member.id, guild), <<>>)

memberdel(self, ctx, guild, member) ==
    Call(ctx, "delete", PropCache(self), MemberKey(guild, member.id), <<>>)

guildset(self, ctx, guild) ==
    Call(ctx, "set", PropCache(self), guild.id, <<guild>>)

guilddel(self, ctx, guild) ==
    Call(ctx, "delete", PropCache(self), guild.id, <<>>)

roleset(self, ctx, role) ==
    Call(ctx, "set", PropCache(self), role.id, <<role>>)

roledel(self, ctx, role) ==
    Call(ctx, "delete", PropCache(self), role.id, <<>>)

\* The emitter applies a listener to the event's arguments: guild is the id
\* of the guild argument ("" when the event has none), ents the entity
\* argument(s).
Invoke(ref, ctx, guild, ents) ==
    LET self == ThisOf(ref)
    IN  CASE ref.fn = "userset" -> userset(self, ctx, ents[1])
          [] ref.fn = "cacheset" -> cacheset(self, ctx, ents[1])
          [] ref.fn = "cachedel" -> cachedel(self, ctx, ents[1])
          [] ref.fn = "memberset" -> memberset(self, ctx, guild, ents[1])
          [] ref.fn = "memberchunk" -> memberchunk(self, ctx, guild, ents)
          [] ref.fn = "memberdel" -> memberdel(self, ctx, guild, ents[1])
          [] ref.fn = "guildset" -> guildset(self, ctx, ents[1])
          [] ref.fn = "guilddel" -> guilddel(self, ctx, ents[1])
          [] ref.fn = "roleset" -> roleset(self, ctx, ents[1])
          [] ref.fn = "roledel" -> roledel(self, ctx, ents[1])

\* EventEmitter.emit: the listeners run in the order they were added; an
\* error raised by one leaves emit at once, the later ones do not run.
RECURSIVE RunListeners(_, _, _, _)
RunListeners(ls, ctx, guild, ents) ==
    IF ls = <<>> \/ ctx.err # "none" THEN ctx
    ELSE RunListeners(Tail(ls),
             Invoke(Head(ls), [ctx EXCEPT !.called = @ + 1], guild, ents),
             guild, ents)

\* ------------------------------------------------------ the operations
NoCalls == <<>>

\* What `last` records of an operation: the operation, the instance it was
\* called on (0: the client), the event and its arguments, the listeners
\* the emitter ran, the error the operation raised and the calls it made on
\* the client and on caches, in order; for close(), result is what the
\* cache's close() did ("returned", "threw", or "pending": it returned a
\* promise, which close() hands to its caller).
Record(op, obj, ev, guild, ents, called, err, calls) ==
    [op |-> op, obj |-> obj, ev |-> ev, guild |-> guild, ents |-> ents,
     called |-> called, err |-> err, calls |-> calls, result |-> "none"]

\* Contents the caches may hold when the application hands them over:
\* nothing, or a guild under its id and a member under its composite key.
InitContents ==
    {Empty,
     Put(Put(Empty, "1", [kind |-> "guild", id |-> "1", type |-> 0, v |-> 1]),
         MemberKey("1", "1"),
         [kind |-> "member", id |-> "1", type |-> 0, v |-> 1])}

Idle == Record("idle", Client, "", "", <<>>, 0, "none", NoCalls)

NoInst == [state |-> "none", cls |-> "user", cache |-> Undefined,
           allowedtypes |-> NoFilter]

Init ==
    /\ emitter \in {"events", "eventemitter3"}
    /\ inst = [i \in Insts |-> NoInst]
    /\ listeners = [ev \in EventNames |-> <<>>]
    /\ \E content \in InitContents : store = [c \in Caches |-> content]
    /\ closeInvoked = [c \in Caches |-> 0]
    /\ closeCalls = [i \in Insts |-> 0]
    /\ last = Idle

\* The client.on calls of setupEvents, from the n-th on.
RECURSIVE OnAll(_, _, _, _)
OnAll(i, cls, n, ls) ==
    IF n > Len(setupEvents(cls)) THEN ls
    ELSE OnAll(i, cls, n + 1,
               On(ls, setupEvents(cls)[n][1],
                  HandlerRef(i, setupEvents(cls)[n][2], "on")))

\* new XCacher(cache, client[, allowedtypes]): the fields are assigned and
\* setupEvents subscribes the listeners.
Construct(i, cls, c, f) ==
    /\ inst[i].state = "none"
    /\ \A j \in Insts : j < i => inst[j].state = "constructed"
    /\ \A d \in Caches : d < c => \E j \in Insts : inst[j].cache = d
    /\ f = NoFilter \/ cls = "channel"
    /\ inst' = [inst EXCEPT ![i] = [state |-> "constructed", cls |-> cls,
                                    cache |-> c, allowedtypes |-> f]]
    /\ listeners' = OnAll(i, cls, 1, listeners)
    /\ last' = Record("new", i, "", "", <<>>, 0, "none", NoCalls)
    /\ UNCHANGED <<emitter, store, closeInvoked, closeCalls>>

\* The client.off calls of a close(), from the n-th on; cl carries the
\* listener arrays and the calls made so far.
RECURSIVE OffAll(_, _, _, _)
OffAll(i, cls, n, cl) ==
    IF n > Len(closeOffs(cls)) \/ cl.err # "none" THEN cl
    ELSE LET ev == closeOffs(cls)[n][1]
             ref == HandlerRef(i, closeOffs(cls)[n][2], "off")
         IN  OffAll(i, cls, n + 1,
                 [cl EXCEPT !.listeners = Off(emitter, @, ev, ref),
                            !.calls = Append(@,
                                [op |-> "off", target |-> Client,
                                 key |-> ev, val |-> <<>>])])

\* (changed) a base close() that leaves the cache open.
SimpleCacherCloseEmpty(i, cl, outcome) == cl

\* SimpleCacher.close: `return this.cache.close()`.  outcome is what the
\* cache's close() does: "returned", "threw", or "pending" (a promise).
SimpleCacherClose(i, cl, outcome) ==
    IF cl.err # "none" THEN cl
    ELSE [cl EXCEPT !.calls = Append(@, [op |-> "close",
                                         target |-> inst[i].cache,
                                         key |-> "", val |-> <<>>]),
                    !.closeInvoked[inst[i].cache] = @ + 1,
                    !.err = IF outcome = "threw" THEN "CacheError" ELSE "none",
                    !.result = outcome]

\* (changed) super.close() first, the listeners unsubscribed after it.
CacherCloseSuperFirst(i, cl, outcome) ==
    OffAll(i, inst[i].cls, 1, SimpleCacherClose(i, cl, outcome))

\* XCacher.close: the listeners are unsubscribed, then super.close().
CacherClose(i, cl, outcome) ==
    SimpleCacherClose(i, OffAll(i, inst[i].cls, 1, cl), outcome)

Close(i, outcome) ==
    /\ inst[i].state = "constructed"
    /\ closeCalls[i] < MaxCloseCalls
    /\ LET cl == CacherClose(i, [listeners |-> listeners, calls |-> NoCalls,
                                 closeInvoked |-> closeInvoked,
                                 err |-> "none", result |-> "none"],
                             outcome)
       IN  /\ listeners' = cl.listeners
           /\ closeInvoked' = cl.closeInvoked
           /\ last' = [Record("close", i, "", "", <<>>, 0, cl.err,
                               cl.calls) EXCEPT !.result = cl.result]
    /\ closeCalls' = [closeCalls EXCEPT ![i] = @ + 1]
    /\ UNCHANGED <<emitter, inst, store>>

\* The arguments the client emits an event with.
EventArgs(ev) ==
    LET cls == ClassOfEvent(ev)
    IN  IF ev = "guildMemberChunk"
        THEN {a \in [guild : Ids, ents : UNION {[1..n -> Entity("member")] :
                                                   n \in 0..MaxChunk}] : TRUE}
        ELSE [guild : IF cls \in {"member", "role"} THEN Ids ELSE {""},
              ents : [1..1 -> Entity(cls)]]

\* client.emit(ev, ...args)
Emit(ev, args, failAt) ==
    LET ctx == RunListeners(listeners[ev],
                   [store |-> store, calls |-> NoCalls, err |-> "none",
                    called |-> 0, failAt |-> failAt],
                   args.guild, args.ents)
    IN  /\ store' = ctx.store
        /\ last' = Record("emit", Client, ev, args.guild, args.ents,
                          ctx.called, ctx.err, ctx.calls)
        /\ UNCHANGED <<emitter, inst, listeners, closeInvoked, closeCalls>>

\* The operation returns to the caller (or raises to it): control is back
\* in the event loop, from where the next operation starts.
Return ==
    /\ last.op # "idle"
    /\ last' = Idle
    /\ UNCHANGED <<emitter, inst, listeners, store, closeInvoked, closeCalls>>

\* The application and the client start an operation only from the event
\* loop (JavaScript runs one operation at a time).
Next ==
    \/ /\ last.op = "idle"
       /\ \E i \in Insts, cls \in Kinds, c \in Caches, f \in FilterChoices :
              Construct(i, cls, c, f)
    \/ /\ last.op = "idle"
       /\ \E i \in Insts, outcome \in {"returned", "threw", "pending"} :
              Close(i, outcome)
    \/ /\ last.op = "idle"
       /\ \E ev \in EventNames :
              \E args \in EventArgs(ev), failAt \in 0..MaxChunk :
                  failAt <= Len(args.ents) /\ Emit(ev, args, failAt)
    \/ Return

Spec == Init /\ [][Next]_vars

\* ------------------------------------------- the public listener methods
\* ChannelCacher.cacheset and ChannelCacher.cachedel are public: the
\* application may call them on an instance, `cacher.cacheset(channel)`,
\* and the receiver is then that instance.
CallMethod(i, fn, channel) ==
    /\ inst[i].state = "constructed"
    /\ inst[i].cls = "channel"
    /\ LET ctx0 == [store |-> store, calls |-> NoCalls, err |-> "none",
                    called |-> 1, failAt |-> 0]
           ctx == IF fn = "cacheset" THEN cacheset(i, ctx0, channel)
                  ELSE cachedel(i, ctx0, channel)
       IN  /\ store' = ctx.store
           /\ last' = Record("call", i, fn, "", <<channel>>, ctx.called,
                             ctx.err, ctx.calls)
    /\ UNCHANGED <<emitter, inst, listeners, closeInvoked, closeCalls>>

\* An application that keeps its channels in one cache, handed over empty:
\* it constructs and closes channel cachers on it, calls their public
\* methods, and the client emits the channel events.
InitChannel == Init /\ \A c \in Caches : store[c] = Empty

NextChannel ==
    \/ /\ last.op = "idle"
       /\ \E i \in Insts, f \in FilterChoices : Construct(i, "channel", 1, f)
    \/ /\ last.op = "idle"
       /\ \E i \in Insts, outcome \in {"returned", "threw", "pending"} :
              Close(i, outcome)
    \/ /\ last.op = "idle"
       /\ \E ev \in {"channelCreate", "channelUpdate", "channelDelete"} :
              \E args \in EventArgs(ev), failAt \in 0..1 :
                  Emit(ev, args, failAt)
    \/ /\ last.op = "idle"
       /\ \E i \in Insts, fn \in {"cacheset", "cachedel"} :
              \E channel \in Entity("channel") : CallMethod(i, fn, channel)
    \/ Return

ChannelSpec == InitChannel /\ [][NextChannel]_vars

\* ---------------------------------------------- the listeners by themselves
\* The listener arrays after instances 1..n of a class were constructed.
RECURSIVE OnEach(_, _)
OnEach(n, cls) ==
    IF n = 0 THEN [ev \in EventNames |-> <<>>]
    ELSE OnAll(n, cls, 1, OnEach(n - 1, cls))

\* The cachers, all of one class, constructed on one cache.
InitHandler ==
    /\ emitter \in {"events", "eventemitter3"}
    /\ \E cls \in Kinds, f \in FilterChoices :
           /\ f = NoFilter \/ cls = "channel"
           /\ inst = [i \in Insts |-> [state |-> "constructed", cls |-> cls,
                                       cache |-> 1, allowedtypes |-> f]]
           /\ listeners = OnEach(MaxInst, cls)
    /\ \E content \in InitContents : store = [c \in Caches |-> content]
    /\ closeInvoked = [c \in Caches |-> 0]
    /\ closeCalls = [i \in Insts |-> 0]
    /\ last = Idle

\* The listener method that instance i subscribes n-th, applied to the
\* arguments of its event as a method of i: `i.<fn>(...args)`.
Apply(i, n, args) ==
    LET ev == setupEvents(inst[i].cls)[n][1]
        fn == setupEvents(inst[i].cls)[n][2]
        ctx == Invoke([fn |-> fn, bound |-> TRUE, this |-> i, site |-> "call"],
                      [store |-> store, calls |-> NoCalls, err |-> "none",
                       called |-> 1, failAt |-> 0],
                      args.guild, args.ents)
    IN  /\ store' = ctx.store
        /\ last' = Record("apply", i, ev, args.guild, args.ents, ctx.called,
                          ctx.err, ctx.calls)
        /\ UNCHANGED <<emitter, inst, listeners, closeInvoked, closeCalls>>

NextHandler ==
    \/ /\ last.op = "idle"
       /\ \E i \in Insts :
              \E n \in 1..Len(setupEvents(inst[i].cls)) :
                  \E args \in EventArgs(setupEvents(inst[i].cls)[n][1]) :
                      Apply(i, n, args)
    \/ /\ last.op = "idle"
       /\ \E ev \in EventNames :
              \E args \in EventArgs(ev), failAt \in 0..1 :
                  Emit(ev, args, failAt)
    \/ Return

HandlerSpec == InitHandler /\ [][NextHandler]_vars

\* ================================================================ claims
Constructed(i) == inst[i].state = "constructed"

\* Attached: after construction, before close().
Attached(i) == Constructed(i) /\ closeCalls[i] = 0

StoreEvents ==
    {"userUpdate", "channelCreate", "channelUpdate", "guildMemberAdd",
     "guildMemberUpdate", "guildCreate", "guildUpdate", "guildRoleCreate",
     "guildRoleUpdate"}

RemoveEvents ==
    {"channelDelete", "guildMemberRemove", "guildDelete", "guildRoleDelete"}

\* The key the specification derives for an entity of an event.
DerivedKey(ev, guild, e) ==
    IF ClassOfEvent(ev) = "member" THEN guild \o ":" \o e.id ELSE e.id

\* The channel filter of the specification: no set, or the type is in it.
Allowed(i, e) ==
    \/ inst[i].cls # "channel"
    \/ ~inst[i].allowedtypes.def
    \/ \E n \in 1..Len(inst[i].allowedtypes.arr) :
           inst[i].allowedtypes.arr[n] = e.type

Holds(c, key, e) == key \in DOMAIN store[c] /\ store[c][key] = e

\* The instances subscribed to an event that the specification has attached.
AttachedTo(ev) == {i \in Insts : Attached(i) /\ inst[i].cls = ClassOfEvent(ev)}

\* C1: after a store event with payload P is delivered (and the cache did
\* not fail), every attached synchronizer of the event's class (a channel
\* synchronizer: without filter) holds exactly P at the derived key.
C1_StoreEventStoresPayload ==
    (last.op = "emit" /\ last.ev \in StoreEvents /\ last.err # "CacheError")
    => \A i \in AttachedTo(last.ev) :
           (inst[i].cls = "channel" => ~inst[i].allowedtypes.def)
           => Holds(inst[i].cache,
                    DerivedKey(last.ev, last.guild, last.ents[1]),
                    last.ents[1])

\* C2: after a delete/remove event is delivered (and the cache did not
\* fail), the derived key is absent from the cache of every attached
\* synchronizer of the event's class, and the delivery raised nothing.
C2_RemoveEventRemovesKey ==
    (last.op = "emit" /\ last.ev \in RemoveEvents /\ last.err # "CacheError")
    => \A i \in AttachedTo(last.ev) :
           Allowed(i, last.ents[1])
           => /\ DerivedKey(last.ev, last.guild, last.ents[1])
                     \notin DOMAIN store[inst[i].cache]
              /\ last.err = "none"

\* C3: once close() has been called on a synchronizer, delivering any event
\* of its class leaves the content of its cache as it was.
C3_NoMutationAfterClose ==
    [][\A i \in Insts :
           (/\ Constructed(i)
            /\ closeCalls[i] > 0
            /\ last'.op = "emit"
            /\ ClassOfEvent(last'.ev) = inst[i].cls)
           => store'[inst[i].cache] = store[inst[i].cache]]_vars

\* A store event of a closed synchronizer's class has been delivered, with a
\* payload its cache does not hold at the derived key.
C3_Witness ==
    /\ last.op = "emit"
    /\ last.ev \in StoreEvents
    /\ \E i \in Insts :
           /\ Constructed(i)
           /\ closeCalls[i] > 0
           /\ inst[i].cls = ClassOfEvent(last.ev)
           /\ ~Holds(inst[i].cache,
                     DerivedKey(last.ev, last.guild, last.ents[1]),
                     last.ents[1])

RECURSIVE SumCloseCalls(_, _)
SumCloseCalls(c, n) ==
    IF n = 0 THEN 0
    ELSE SumCloseCalls(c, n - 1)
         + (IF Constructed(n) /\ inst[n].cache = c THEN closeCalls[n] ELSE 0)

CloseCallsIn(calls, c) ==
    Cardinality({n \in 1..Len(calls) :
                     calls[n].op = "close" /\ calls[n].target = c})

\* C4: each call of close() on a synchronizer invokes the close() of its
\* cache exactly once, and nothing else invokes it: a cache has received as
\* many close() invocations as close() was called on the synchronizers
\* holding it, whatever events were delivered.
C4_CacheClosedOncePerClose ==
    /\ \A c \in Caches : closeInvoked[c] = SumCloseCalls(c, MaxInst)
    /\ last.op = "close" => CloseCallsIn(last.calls, inst[last.obj].cache) = 1
    /\ last.op = "emit" =>
           \A n \in 1..Len(last.calls) : last.calls[n].op # "close"

\* A synchronizer closed once, its cache closed once, and an event of its
\* class delivered since.
C4_Witness ==
    /\ last.op = "emit"
    /\ \E i \in Insts :
           /\ Constructed(i)
           /\ closeCalls[i] = 1
           /\ closeInvoked[inst[i].cache] = 1
           /\ inst[i].cls = ClassOfEvent(last.ev)

\* The listener `this.<fn>` of instance i is registered n times for ev.
Registered(i, ev, fn) == Count(listeners[ev], HandlerRef(i, fn, "on"))

AttachedOfClass(cls) == {j \in Insts : Attached(j) /\ inst[j].cls = cls}

\* C5: between operations every attached synchronizer accounts for one
\* registration under each event name of its table and a closed one for
\* none: each event name of a class has as many registrations as the class
\* has attached instances.
C5_AllOrNothingRegistered ==
    \A cls \in Kinds : \A n \in 1..Len(setupEvents(cls)) :
        Registered(1, setupEvents(cls)[n][1], setupEvents(cls)[n][2])
            = Cardinality(AttachedOfClass(cls))

\* C6: (a) when close() has run on one instance, every other instance that
\* is still attached has a registration under each event name of its table;
\* (b) and when a store event is then delivered (the cache not failing),
\* each still attached instance of the event's class holds the payload.
C6_CloseLeavesOthersAttached ==
    /\ last.op = "close" =>
           \A cls \in Kinds : \A n \in 1..Len(setupEvents(cls)) :
               Registered(1, setupEvents(cls)[n][1], setupEvents(cls)[n][2])
                   >= Cardinality(AttachedOfClass(cls) \ {last.obj})
    /\ (/\ last.op = "emit"
        /\ last.ev \in StoreEvents
        /\ last.err # "CacheError"
        /\ \E j \in Insts : Constructed(j) /\ closeCalls[j] > 0)
       => \A i \in AttachedTo(last.ev) :
              Allowed(i, last.ents[1])
              => Holds(inst[i].cache,
                       DerivedKey(last.ev, last.guild, last.ents[1]),
                       last.ents[1])

\* C7: after a channelCreate/channelUpdate is delivered (the cache not
\* failing), an attached channel synchronizer holds the channel under its id
\* when it has no allowed-type set or the type is in the set, and does not
\* hold it when the type is not in the set; without a set, a delivered
\* channelDelete leaves the id absent.
C7_ChannelFilter ==
    (last.op = "emit" /\ ClassOfEvent(last.ev) = "channel"
     /\ last.err # "CacheError")
    => \A i \in AttachedTo(last.ev) :
           LET ch == last.ents[1]
               c == inst[i].cache
           IN  /\ (last.ev # "channelDelete" /\ Allowed(i, ch))
                      => Holds(c, ch.id, ch)
               /\ (last.ev # "channelDelete" /\ ~Allowed(i, ch))
                      => ~Holds(c, ch.id, ch)
               /\ (last.ev = "channelDelete" /\ ~inst[i].allowedtypes.def)
                      => ch.id \notin DOMAIN store[c]

\* The content after the members of a batch are stored, in order, under
\* their composite keys.
RECURSIVE WithMembers(_, _, _)
WithMembers(content, guild, members) ==
    IF members = <<>> THEN content
    ELSE WithMembers(Put(content, guild \o ":" \o Head(members).id,
                         Head(members)),
                     guild, Tail(members))

\* C8: delivering guildMemberAdd/guildMemberUpdate(g, m) or
\* guildMemberChunk(g, members) (the cache not failing) changes the cache of
\* every attached member synchronizer to hold each member under
\* "<g.id>:<member.id>" and changes no other key.
C8_MemberCompositeKey ==
    [][(/\ last'.op = "emit"
        /\ last'.ev \in {"guildMemberAdd", "guildMemberUpdate",
                         "guildMemberChunk"}
        /\ last'.err # "CacheError")
       => \A i \in AttachedTo(last'.ev) :
              store'[inst[i].cache]
                  = WithMembers(store[inst[i].cache], last'.guild,
                                last'.ents)]_vars

\* The position of the first call of last.calls with the given op and key
\* (0: none).
CallAt(calls, op, key) ==
    IF \E n \in 1..Len(calls) : calls[n].op = op /\ calls[n].key = key
    THEN CHOOSE n \in 1..Len(calls) :
             /\ calls[n].op = op /\ calls[n].key = key
             /\ \A m \in 1..(n - 1) : ~(calls[m].op = op /\ calls[m].key = key)
    ELSE 0

\* C9: in a close(), client.off has been called for every event name of the
\* instance's table before the cache's close() is invoked, which is its last
\* call; so whether the cache's close() returned, threw or is pending, the
\* instance's registrations are gone (what is left under its event names
\* belongs to the instances still attached), and events delivered later
\* leave its cache as it was.
C9_DetachBeforeCacheClose ==
    /\ [](last.op = "close" =>
            LET i == last.obj
                cls == inst[i].cls
                calls == last.calls
            IN  /\ Len(calls) = Len(closeOffs(cls)) + 1
                /\ calls[Len(calls)].op = "close"
                /\ calls[Len(calls)].target = inst[i].cache
                /\ \A n \in 1..Len(closeOffs(cls)) :
                       /\ CallAt(calls, "off", closeOffs(cls)[n][1]) > 0
                       /\ CallAt(calls, "off", closeOffs(cls)[n][1])
                              < Len(calls)
                       /\ Registered(i, closeOffs(cls)[n][1],
                                     closeOffs(cls)[n][2])
                              <= Cardinality(AttachedOfClass(cls)))
    /\ [][\A i \in Insts :
              (Constructed(i) /\ closeCalls[i] > 0 /\ last'.op = "emit")
              => store'[inst[i].cache] = store[inst[i].cache]]_vars

\* The first close() of a channel synchronizer whose cache's close() threw:
\* three client.off calls, then the cache's close(), the listeners gone.
C9_Witness ==
    /\ last.op = "close"
    /\ last.result = "threw"
    /\ last.err = "CacheError"
    /\ closeCalls[last.obj] = 1
    /\ inst[last.obj].cls = "channel"
    /\ listeners["channelCreate"] = <<>>
    /\ Len(last.calls) = 4

\* C10: an emission that ends with an error ends with the failure of the
\* cache operation a listener invoked, that operation being the last call
\* made (no retry, no fallback write); and a listener of every attached
\* instance is still registered.
C10_CacheFailurePropagates ==
    (last.op = "emit" /\ last.err # "none")
    => /\ last.err = "CacheError"
       /\ Len(last.calls) >= 1
       /\ \A i \in AttachedTo(last.ev) :
              \A n \in 1..Len(setupEvents(inst[i].cls)) :
                  Registered(i, setupEvents(inst[i].cls)[n][1],
                             setupEvents(inst[i].cls)[n][2]) >= 1

\* The instances constructed on cache c.
Holders(c) == {i \in Insts : Constructed(i) /\ inst[i].cache = c}

\* Cache c is written by channel synchronizers only, all of them with the
\* allowed-type set F.
FilteredBy(c, F) ==
    /\ Holders(c) # {}
    /\ \A i \in Holders(c) :
           inst[i].cls = "channel" /\ inst[i].allowedtypes = Filter(F)

InSeq(x, F) == \E n \in 1..Len(F) : F[n] = x

\* C11: for a cache written by channel synchronizers with allowed-type set
\* F, a channelUpdate or channelDelete (delivered by the client, or its
\* listener method called on a synchronizer) whose type is not in F leaves
\* the cache as it was: what was stored for the channel id stays.
C11_UnmatchedTypeChangesNothing ==
    [][\A c \in Caches :
           (/\ \/ last'.op = "emit"
                  /\ last'.ev \in {"channelUpdate", "channelDelete"}
               \/ last'.op = "call"
            /\ FilteredBy(c, <<0>>)
            /\ ~InSeq(last'.ents[1].type, <<0>>))
           => store'[c] = store[c]]_vars

\* A channelDelete of type 1 has been delivered for an id under which the
\* cache of an attached synchronizer with allowed types {0} holds a channel
\* of type 0, and a listener ran.
C11_Witness ==
    /\ last.op = "emit"
    /\ last.ev = "channelDelete"
    /\ last.called >= 1
    /\ last.ents[1].type = 1
    /\ \E i \in Insts :
           /\ Attached(i)
           /\ FilteredBy(inst[i].cache, <<0>>)
           /\ last.ents[1].id \in DOMAIN store[inst[i].cache]
           /\ store[inst[i].cache][last.ents[1].id].type = 0

\* The set call the n-th member of a delivered batch accounts for.
ChunkSet(c, guild, members, n) ==
    [op |-> "set", target |-> c,
     key |-> guild \o ":" \o members[n].id, val |-> <<members[n]>>]

\* The last member of the batch with the id of the n-th.
LastWithId(members, n) ==
    members[CHOOSE m \in n..Len(members) :
                /\ members[m].id = members[n].id
                /\ \A k \in (m + 1)..Len(members) :
                       members[k].id # members[n].id]

\* C12: after guildMemberChunk(g, members) is delivered with one member
\* synchronizer attached (the cache not failing), the calls made are one set
\* per member, in batch order, on the synchronizer's cache, and the cache
\* holds under "<g.id>:<id>" the last member of the batch with that id.
C12_ChunkOneSetPerMember ==
    (/\ last.op = "emit"
     /\ last.ev = "guildMemberChunk"
     /\ last.err # "CacheError"
     /\ Cardinality(AttachedTo(last.ev)) = 1)
    => \A i \in AttachedTo(last.ev) :
           /\ Len(last.calls) = Len(last.ents)
           /\ \A n \in 1..Len(last.ents) :
                  /\ last.calls[n]
                         = ChunkSet(inst[i].cache, last.guild, last.ents, n)
                  /\ Holds(inst[i].cache,
                           last.guild \o ":" \o last.ents[n].id,
                           LastWithId(last.ents, n))

\* C13: when a store event is delivered while a synchronizer of its class
\* that accepts the payload is attached, a set of the payload under the
\* derived key has been issued to a cache by the time the emission is over
\* (the write an asynchronous cache then has in flight while the next event
\* is delivered).
C13_StoreEventIssuesWrite ==
    (/\ last.op = "emit"
     /\ last.ev \in StoreEvents
     /\ \E i \in AttachedTo(last.ev) : Allowed(i, last.ents[1]))
    => \E n \in 1..Len(last.calls) :
           /\ last.calls[n].op = "set"
           /\ last.calls[n].key
                  = DerivedKey(last.ev, last.guild, last.ents[1])
           /\ last.calls[n].val = <<last.ents[1]>>

\* C14: a close() called on a synchronizer that close() was already called
\* on changes no listener registration of the client.
C14_RepeatedCloseChangesNoRegistration ==
    [][(last'.op = "close" /\ closeCalls[last'.obj] >= 1)
       => listeners' = listeners]_vars

\* C16: with two synchronizers of one class attached and holding distinct
\* caches, a delivered store event (the cache not failing) leaves the
\* payload at the derived key in the cache of each (a channel synchronizer:
\* when its own allowed-type set accepts the type).
C16_HandlerUsesRegisteringInstance ==
    (/\ last.op = "emit"
     /\ last.ev \in StoreEvents
     /\ last.err # "CacheError"
     /\ AttachedTo(last.ev) = Insts
     /\ inst[1].cache # inst[2].cache)
    => /\ Allowed(1, last.ents[1])
           => Holds(inst[1].cache,
                    DerivedKey(last.ev, last.guild, last.ents[1]),
                    last.ents[1])
       /\ Allowed(2, last.ents[1])
           => Holds(inst[2].cache,
                    DerivedKey(last.ev, last.guild, last.ents[1]),
                    last.ents[1])

\* C15: the keys of the cache calls a listener makes are those derived from
\* its arguments, one call per entity in order (none when a channel's type
\* is filtered out): the entity's id, for a member the guild id and the
\* member id, for a role the id whatever the guild; whatever the cache
\* holds, whatever was applied before and whichever instance runs it.
C15_KeyFromPayloadAlone ==
    last.op = "apply"
    => /\ Len(last.calls) <= Len(last.ents)
       /\ Allowed(last.obj, last.ents[1]) => Len(last.calls) = Len(last.ents)
       /\ \A n \in 1..Len(last.calls) :
              last.calls[n].key
                  = DerivedKey(last.ev, last.guild, last.ents[n])

\* guildRoleCreate(g2, r) applied on the second instance for a role whose
\* id the cache holds already: the key is the role's id.
C15_Witness ==
    /\ last.op = "apply"
    /\ last.obj = 2
    /\ last.ev = "guildRoleCreate"
    /\ last.guild = "2"
    /\ last.ents[1].id = "1"
    /\ last.ents[1].v = 2
    /\ Len(last.calls) = 1
    /\ last.calls[1].key = "1"
    /\ Holds(1, "1", last.ents[1])

\* C17: no set and no delete is issued to a cache whose close() has been
\* invoked: every set/delete an operation made went to a cache that no
\* close() had been called on.
C17_NoWriteToClosedCache ==
    \A n \in 1..Len(last.calls) :
        last.calls[n].op \in {"set", "delete"}
        => closeInvoked[last.calls[n].target] = 0

\* C18: in a cache handed over empty and written only by channel
\* synchronizers with the allowed-type set {0}, every value has a type in
\* the set and is stored under its own id.
C18_FilteredCacheHoldsAllowedTypes ==
    \A c \in Caches :
        FilteredBy(c, <<0>>)
        => \A k \in DOMAIN store[c] :
               /\ InSeq(store[c][k].type, <<0>>)
               /\ store[c][k].id = k

\* A filtered synchronizer has just stored a channel of an allowed type
\* under its id.
C18_Witness ==
    /\ last.op = "call"
    /\ last.ev = "cacheset"
    /\ Len(last.calls) = 1
    /\ FilteredBy(inst[last.obj].cache, <<0>>)
    /\ Holds(inst[last.obj].cache, last.ents[1].id, last.ents[1])
    /\ last.ents[1].v = 2

\* The keys derived from the arguments of an event.
DerivedKeys(ev, guild, ents) ==
    {DerivedKey(ev, guild, ents[n]) : n \in 1..Len(ents)}

\* C19: an event delivered by the client, or a listener applied to its
\* arguments, leaves the listener registrations as they were and leaves
\* every key other than those derived from the arguments as it was, in every
\* cache; an event of a class no synchronizer was constructed for changes
\* no cache; and user synchronizers remove no entry.
C19_FrameOfAnEvent ==
    [][last'.op \in {"emit", "apply"}
       => /\ listeners' = listeners
          /\ \A c \in Caches :
                 \A k \in (DOMAIN store[c] \cup DOMAIN store'[c])
                              \ DerivedKeys(last'.ev, last'.guild, last'.ents) :
                     /\ k \in DOMAIN store[c]
                     /\ k \in DOMAIN store'[c]
                     /\ store'[c][k] = store[c][k]
          /\ (\A i \in Insts :
                  Constructed(i) => inst[i].cls # ClassOfEvent(last'.ev))
                 => store' = store
          /\ (\A i \in Insts : Constructed(i) => inst[i].cls = "user")
                 => \A c \in Caches : DOMAIN store[c] \subseteq DOMAIN store'[c]
      ]_vars

\* guildMemberUpdate handled while the cache holds members under two other
\* keys: the member is stored under its key, the others are there.
C19_Witness ==
    /\ last.op = "apply"
    /\ last.ev = "guildMemberUpdate"
    /\ last.guild = "2"
    /\ last.ents[1].id = "1"
    /\ last.ents[1].v = 2
    /\ Len(last.calls) = 1
    /\ Holds(1, "2:1", last.ents[1])
    /\ "1:2" \in DOMAIN store[1]
    /\ Holds(1, "1:1", [kind |-> "member", id |-> "1", type |-> 0, v |-> 1])

\* C20: when the delivery of guildMemberChunk(g, members) to one attached
\* member synchronizer ends with an error, the error is the failure of the
\* cache's set for the member at position i, the last call made; the cache
\* then holds the members before position i on top of what it held, and
\* none from position i on.
C20_ChunkPartiallyApplied ==
    [][(/\ last'.op = "emit"
        /\ last'.ev = "guildMemberChunk"
        /\ last'.err # "none"
        /\ Cardinality(AttachedTo(last'.ev)) = 1)
       => \A i \in AttachedTo(last'.ev) :
              /\ last'.err = "CacheError"
              /\ Len(last'.calls) >= 1
              /\ store'[inst[i].cache]
                     = WithMembers(store[inst[i].cache], last'.guild,
                                   SubSeq(last'.ents, 1,
                                          Len(last'.calls) - 1))]_vars

====
